---- MODULE Spec2Model ----
(***************************************************************************)
(* Model of User_API/customer_crud.py: the store listing and the per-user  *)
(* shopping cart kept in a Redis hash (one hash per user, one field per    *)
(* item id, one JSON document per field, one expiry per hash).             *)
(*                                                                         *)
(* Every request handler is cut at its calls on the shared cache client    *)
(* `r`: each call is atomic, the handler as a whole is not.                *)
(***************************************************************************)
EXTENDS Integers, Sequences, FiniteSets, TLC

VARIABLES
    catalog,  \* the Item table: item id -> row (NoRow when the id has no row)
    cache,    \* Redis hashes: cart key -> (field -> JSON text, <<>> when absent)
    ttl,      \* Redis expiry of a key: <<>> (none set) or <<seconds left>>
    req,      \* the requests in flight: slot -> handler locals and position
    started,  \* how many requests have been received so far
    users,    \* the identities that hold a valid token in this run
    probe,    \* two identities and the cart keys derived for them
    net       \* field -> confirmed adds minus confirmed removes (counted runs)

vars == <<catalog, cache, ttl, req, started, users, probe, net>>

----------------------------------------------------------------------------
(* Bounds of the model *)

\* requests received in one run
MaxRequests == 3

\* add_to_cart is not started on a line item that already holds MaxQty
MaxQty == 2

\* seconds of wall-clock time that pass in one Tick
TickSeconds == 43200

\* longest subject a cart key is derived for
MaxSubLen == 3

(* Program constants *)

\* r.expire(cart_key, 86400)
CART_TTL == 86400

----------------------------------------------------------------------------
(* Strings are sequences of one-character strings *)

Digit(d) == <<"0", "1", "2", "3", "4", "5", "6", "7", "8", "9">>[d + 1]

RECURSIVE NatStr(_)
NatStr(n) == IF n < 10 THEN <<Digit(n)>> ELSE NatStr(n \div 10) \o <<Digit(n % 10)>>

\* Python's str() of an int, as f-strings and redis-py apply it
str(n) == IF n < 0 THEN <<"-">> \o NatStr(0 - n) ELSE NatStr(n)

\* The cart key of a mutated build: the user id is left out of the key
get_cart_key_NoId(username, id) == <<"c", "a", "r", "t", ":">> \o username

\* A build that joins subject and id without the separator
get_cart_key_NoSep(username, id) ==
    <<"c", "a", "r", "t", ":">> \o username \o str(id)

\* A build that keys the cart by the user id alone
get_cart_key_IdOnly(username, id) == <<"c", "a", "r", "t", ":">> \o str(id)

get_cart_key(username, id) ==
    <<"c", "a", "r", "t", ":">> \o username \o <<"_">> \o str(id)

----------------------------------------------------------------------------
(* The identities verify_token can yield, and the item ids requests name *)

Identities ==
    { [sub |-> <<"a">>, user_id |-> 1],
      [sub |-> <<"a", "_", "1">>, user_id |-> 1] }

InvalidToken == [sub |-> <<>>, user_id |-> 0]

Tokens == Identities \cup {InvalidToken}

Alice == [sub |-> <<"a">>, user_id |-> 1]

\* verify_token(token): the payload of a valid token; raises 401 otherwise
verify_token(token) == [sub |-> token.sub, user_id |-> token.user_id]

TokenValid(token) == token \in users

ItemIds == {1, 2}

Keys == { get_cart_key(u.sub, u.user_id) : u \in Identities }

Fields == { str(i) : i \in ItemIds }

----------------------------------------------------------------------------
(* The Item table *)

NoRow == [id |-> 0, name |-> "", price |-> 0, in_stock |-> FALSE]

Row(i, name, price, in_stock) ==
    [id |-> i, name |-> name, price |-> price, in_stock |-> in_stock]

\* the rows the table holds for an id in a run: the row of id 1 is edited and
\* deleted under the carts, the row of id 2 stays
Rows(i) ==
    IF i = 1 THEN {Row(1, "Widget", 9, TRUE), Row(1, "Gizmo", 12, FALSE), NoRow}
    ELSE {Row(i, "Gadget", 5, TRUE)}

\* db.query(Item).filter(Item.id == id).first()
QueryItem(id) == IF id \in DOMAIN catalog THEN catalog[id] ELSE NoRow

----------------------------------------------------------------------------
(* JSON: a document is the sequence of its <<key, value>> members *)

NoInfo == [id |-> 0, name |-> "", price |-> 0, quantity |-> 0]

json_dumps(d) ==
    << <<"id", d.id>>, <<"name", d.name>>, <<"price", d.price>>,
       <<"quantity", d.quantity>> >>

Member(text, key) == text[CHOOSE j \in DOMAIN text : text[j][1] = key][2]

json_loads(text) ==
    [id |-> Member(text, "id"), name |-> Member(text, "name"),
     price |-> Member(text, "price"), quantity |-> Member(text, "quantity")]

----------------------------------------------------------------------------
(* The cache client r: Redis hash commands on (cache, ttl).  A key exists *)
(* exactly when its hash holds a field; a key that stops existing loses   *)
(* its expiry, and a key created by HSET has none.                        *)

EmptyHash == [f \in Fields |-> <<>>]

KeyExists(c, key) == \E f \in Fields : c[key][f] # <<>>

\* HGET key field: the value, or nothing (None) when the field is absent
hget(c, key, field) == c[key][field]

\* HSET key field value
hset_cache(c, key, field, value) == [c EXCEPT ![key][field] = value]

hset_ttl(c, t, key) == IF KeyExists(c, key) THEN t ELSE [t EXCEPT ![key] = <<>>]

\* HDEL key field: removing the last field removes the key and its expiry
hdel_cache(c, key, field) == [c EXCEPT ![key][field] = <<>>]

hdel_ttl(c, t, key, field) ==
    IF KeyExists(hdel_cache(c, key, field), key) THEN t ELSE [t EXCEPT ![key] = <<>>]

\* EXPIRE key seconds: sets the expiry of an existing key, 0 (no error) otherwise
expire_ttl(c, t, key, seconds) ==
    IF KeyExists(c, key) THEN [t EXCEPT ![key] = <<seconds>>] ELSE t

\* HGETALL key: the fields present, in any order the server may reply in
Orderings(S) ==
    { s \in [1..Cardinality(S) -> S] : \A i, j \in DOMAIN s : i # j => s[i] # s[j] }

hgetall(c, key) == Orderings({ f \in Fields : c[key][f] # <<>> })

----------------------------------------------------------------------------
(* Request slots *)

Reqs == {1, 2}

Idle ==
    [op |-> "none", pc |-> "idle", token |-> InvalidToken, id |-> 0,
     item |-> NoRow, existing |-> <<>>, item_info |-> NoInfo,
     status |-> "none", body |-> <<>>, fault |-> "none", clean |-> FALSE]

\* cart_key = get_cart_key(user_info['sub'], user_info['user_id'])
CartKey(q) == get_cart_key(verify_token(q.token).sub, verify_token(q.token).user_id)

HasRead(q) ==
    /\ q.op \in {"add", "remove"}
    /\ \/ q.pc \in {"hset", "expire", "write"}
       \/ q.pc = "done" /\ q.status \in {"ok", "internal500"}

\* History: q.clean is lowered when, after q's HGET, somebody else writes q's
\* field or q's cart expires.
Touched(q, key, field) ==
    IF HasRead(q) /\ CartKey(q) = key /\ str(q.id) = field
    THEN [q EXCEPT !.clean = FALSE] ELSE q

Expired(q, gone) ==
    IF HasRead(q) /\ CartKey(q) \in gone THEN [q EXCEPT !.clean = FALSE] ELSE q

Finish(q, status, body) == [q EXCEPT !.pc = "done", !.status = status, !.body = body]

NoProbe == [a |-> InvalidToken, b |-> InvalidToken, ka |-> <<>>, kb |-> <<>>]

NoNet == [f \in Fields |-> 0]

Init ==
    /\ probe = NoProbe
    /\ net = NoNet
    /\ catalog = [i \in ItemIds |-> CHOOSE row \in Rows(i) : row.name \in {"Widget", "Gadget"}]
    /\ users = {Alice}
    /\ cache = [k \in Keys |-> EmptyHash]
    /\ ttl = [k \in Keys |-> <<>>]
    /\ req = [r \in Reqs |-> Idle]
    /\ started = 0

----------------------------------------------------------------------------
(* add_to_cart *)

\* A build that resets the cart's expiry before it looks the item up
AddStart_ExpireFirst(r, token, id) ==
    /\ req[r].pc = "idle" /\ started < MaxRequests
    /\ LET q == [Idle EXCEPT !.op = "add", !.token = token, !.id = id] IN
       /\ req' = [req EXCEPT ![r] =
                    IF ~TokenValid(token) THEN Finish(q, "unauthorized401", <<>>)
                    ELSE IF QueryItem(id) = NoRow THEN Finish(q, "notfound404", <<>>)
                    ELSE [q EXCEPT !.pc = "hget", !.item = QueryItem(id)]]
       /\ ttl' = IF TokenValid(token)
                 THEN expire_ttl(cache, ttl, CartKey(q), CART_TTL) ELSE ttl
    /\ started' = started + 1
    /\ UNCHANGED <<catalog, cache, users>>

\* lines 48-54: the token, the cart key, the catalog row, 404 when there is none
AddStart(r, token, id) ==
    /\ req[r].pc = "idle" /\ started < MaxRequests
    /\ LET q == [Idle EXCEPT !.op = "add", !.token = token, !.id = id] IN
       req' = [req EXCEPT ![r] =
                 IF ~TokenValid(token) THEN Finish(q, "unauthorized401", <<>>)
                 ELSE IF QueryItem(id) = NoRow THEN Finish(q, "notfound404", <<>>)
                 ELSE [q EXCEPT !.pc = "hget", !.item = QueryItem(id)]]
    /\ started' = started + 1
    /\ UNCHANGED <<catalog, cache, ttl, users>>

\* A build that rebuilds the line item from the catalog row on every add
NewItemInfo_Refresh(existing_item, item) ==
    [id |-> item.id, name |-> item.name, price |-> item.price,
     quantity |-> IF existing_item # <<>>
                  THEN json_loads(existing_item).quantity + 1 ELSE 1]

\* A build that writes the stored line item back without incrementing it
NewItemInfo_NoIncrement(existing_item, item) ==
    IF existing_item # <<>>
    THEN json_loads(existing_item)
    ELSE [id |-> item.id, name |-> item.name, price |-> item.price, quantity |-> 1]

\* lines 58-59 and 62-67: the line item to write
NewItemInfo(existing_item, item) ==
    IF existing_item # <<>>
    THEN [json_loads(existing_item) EXCEPT
            !.quantity = json_loads(existing_item).quantity + 1]
    ELSE [id |-> item.id, name |-> item.name, price |-> item.price, quantity |-> 1]

\* line 57: existing_item := r.hget(cart_key, item.id)
AddHget(r) ==
    /\ req[r].op = "add" /\ req[r].pc = "hget"
    /\ LET existing_item == hget(cache, CartKey(req[r]), str(req[r].item.id)) IN
       /\ existing_item # <<>> => json_loads(existing_item).quantity < MaxQty
       /\ req' = [req EXCEPT ![r] =
                    [@ EXCEPT !.pc = "hset", !.existing = existing_item,
                              !.item_info = NewItemInfo(existing_item, req[r].item),
                              !.clean = TRUE]]
    /\ UNCHANGED <<catalog, cache, ttl, started, users>>

\* A build that increments inside the cache (one atomic command) instead of
\* writing back the value computed from the earlier read
AddHset_Atomic(r) ==
    /\ req[r].op = "add" /\ req[r].pc = "hset"
    /\ LET key == CartKey(req[r])
           field == str(req[r].item.id) IN
       /\ cache' = hset_cache(cache, key, field,
                      json_dumps(NewItemInfo(hget(cache, key, field), req[r].item)))
       /\ ttl' = hset_ttl(cache, ttl, key)
       /\ req' = [q \in Reqs |->
                    IF q = r THEN [req[r] EXCEPT !.pc = "expire"]
                    ELSE Touched(req[q], key, field)]
    /\ UNCHANGED <<catalog, started, users>>

\* line 69: r.hset(cart_key, item.id, json.dumps(item_info))
AddHset(r) ==
    /\ req[r].op = "add" /\ req[r].pc = "hset"
    /\ LET key == CartKey(req[r])
           field == str(req[r].item.id) IN
       /\ cache' = hset_cache(cache, key, field, json_dumps(req[r].item_info))
       /\ ttl' = hset_ttl(cache, ttl, key)
       /\ req' = [q \in Reqs |->
                    IF q = r THEN [req[r] EXCEPT !.pc = "expire"]
                    ELSE Touched(req[q], key, field)]
    /\ UNCHANGED <<catalog, started, users>>

\* A build that sets the expiry only on a cart that has none (EXPIRE ... NX)
AddExpire_NX(r) ==
    /\ req[r].op = "add" /\ req[r].pc = "expire"
    /\ ttl' = IF ttl[CartKey(req[r])] = <<>>
              THEN expire_ttl(cache, ttl, CartKey(req[r]), CART_TTL) ELSE ttl
    /\ req' = [req EXCEPT ![r] = Finish(@, "ok", <<>>)]
    /\ UNCHANGED <<catalog, cache, started, users>>

\* lines 70 and 74: r.expire(cart_key, 86400), then the confirmation
AddExpire(r) ==
    /\ req[r].op = "add" /\ req[r].pc = "expire"
    /\ ttl' = expire_ttl(cache, ttl, CartKey(req[r]), CART_TTL)
    /\ req' = [req EXCEPT ![r] = Finish(@, "ok", <<>>)]
    /\ UNCHANGED <<catalog, cache, started, users>>

\* A build that undoes its write when a later cache call raises
AddCacheError_Rollback(r) ==
    /\ req[r].op = "add" /\ req[r].pc \in {"hget", "hset", "expire"}
    /\ req' = [req EXCEPT ![r] =
                 [Finish(@, "internal500", <<>>) EXCEPT !.fault = req[r].pc]]
    /\ cache' = IF req[r].pc = "expire"
                THEN hdel_cache(cache, CartKey(req[r]), str(req[r].item.id))
                ELSE cache
    /\ ttl' = IF req[r].pc = "expire"
              THEN hdel_ttl(cache, ttl, CartKey(req[r]), str(req[r].item.id))
              ELSE ttl
    /\ UNCHANGED <<catalog, started, users>>

\* lines 71-72: the cache call at hand raises, the handler answers 500
AddCacheError(r) ==
    /\ req[r].op = "add" /\ req[r].pc \in {"hget", "hset", "expire"}
    /\ req' = [req EXCEPT ![r] =
                 [Finish(@, "internal500", <<>>) EXCEPT !.fault = req[r].pc]]
    /\ UNCHANGED <<catalog, cache, ttl, started, users>>

----------------------------------------------------------------------------
(* view_cart *)

\* line 89: [json.loads(cart[id]) for id in cart]
DecodeCart(c, key, order) == [j \in DOMAIN order |-> json_loads(c[key][order[j]])]

\* A build that answers 404 for an empty cart, as view_store does for an
\* empty catalog
ViewCart_NotFoundWhenEmpty(r, token) ==
    /\ req[r].pc = "idle" /\ started < MaxRequests
    /\ LET q == [Idle EXCEPT !.op = "view", !.token = token] IN
       \E order \in hgetall(cache, IF TokenValid(token) THEN CartKey(q) ELSE CHOOSE k \in Keys : TRUE) :
          req' = [req EXCEPT ![r] =
                    IF ~TokenValid(token) THEN Finish(q, "unauthorized401", <<>>)
                    ELSE IF order = <<>> THEN Finish(q, "notfound404", <<>>)
                    ELSE Finish(q, "ok", DecodeCart(cache, CartKey(q), order))]
    /\ started' = started + 1
    /\ UNCHANGED <<catalog, cache, ttl, users>>

\* A build in which viewing the cart counts as activity and resets its expiry
ViewCart_Touch(r, token) ==
    /\ req[r].pc = "idle" /\ started < MaxRequests
    /\ LET q == [Idle EXCEPT !.op = "view", !.token = token] IN
       /\ \E order \in hgetall(cache, IF TokenValid(token) THEN CartKey(q) ELSE CHOOSE k \in Keys : TRUE) :
             req' = [req EXCEPT ![r] =
                       IF ~TokenValid(token) THEN Finish(q, "unauthorized401", <<>>)
                       ELSE Finish(q, "ok", DecodeCart(cache, CartKey(q), order))]
       /\ ttl' = IF TokenValid(token) THEN expire_ttl(cache, ttl, CartKey(q), CART_TTL) ELSE ttl
    /\ started' = started + 1
    /\ UNCHANGED <<catalog, cache, users>>

\* lines 84-89
ViewCart(r, token) ==
    /\ req[r].pc = "idle" /\ started < MaxRequests
    /\ LET q == [Idle EXCEPT !.op = "view", !.token = token] IN
       \E order \in hgetall(cache, IF TokenValid(token) THEN CartKey(q) ELSE CHOOSE k \in Keys : TRUE) :
          req' = [req EXCEPT ![r] =
                    IF ~TokenValid(token) THEN Finish(q, "unauthorized401", <<>>)
                    ELSE Finish(q, "ok", DecodeCart(cache, CartKey(q), order))]
    /\ started' = started + 1
    /\ UNCHANGED <<catalog, cache, ttl, users>>

\* line 87 raises: no handler catches it
ViewCartCacheError(r, token) ==
    /\ req[r].pc = "idle" /\ started < MaxRequests
    /\ TokenValid(token)
    /\ req' = [req EXCEPT ![r] =
                 [Finish([Idle EXCEPT !.op = "view", !.token = token], "unhandled", <<>>)
                    EXCEPT !.fault = "hgetall"]]
    /\ started' = started + 1
    /\ UNCHANGED <<catalog, cache, ttl, users>>

----------------------------------------------------------------------------
(* remove_item_from_cart *)

\* A build that answers 404 when the cart holds no line item of that id
RemHget_NotFound(r, token, id) ==
    /\ req[r].pc = "idle" /\ started < MaxRequests
    /\ LET q == [Idle EXCEPT !.op = "remove", !.token = token, !.id = id] IN
       req' = [req EXCEPT ![r] =
                 IF ~TokenValid(token) THEN Finish(q, "unauthorized401", <<>>)
                 ELSE LET reply == hget(cache, CartKey(q), str(id)) IN
                      IF reply = <<>> THEN Finish(q, "notfound404", <<>>)
                      ELSE [q EXCEPT !.pc = "write", !.existing = reply,
                                     !.item_info = json_loads(reply), !.clean = TRUE]]
    /\ started' = started + 1
    /\ UNCHANGED <<catalog, cache, ttl, users>>

\* lines 104-107: item = json.loads(r.hget(cart_key, id)), outside the try
RemHget(r, token, id) ==
    /\ req[r].pc = "idle" /\ started < MaxRequests
    /\ LET q == [Idle EXCEPT !.op = "remove", !.token = token, !.id = id] IN
       req' = [req EXCEPT ![r] =
                 IF ~TokenValid(token) THEN Finish(q, "unauthorized401", <<>>)
                 ELSE LET reply == hget(cache, CartKey(q), str(id)) IN
                      IF reply = <<>> THEN Finish(q, "unhandled", <<>>)
                      ELSE [q EXCEPT !.pc = "write", !.existing = reply,
                                     !.item_info = json_loads(reply), !.clean = TRUE]]
    /\ started' = started + 1
    /\ UNCHANGED <<catalog, cache, ttl, users>>

\* line 107 raises in r.hget: the call is not inside the try
RemHgetCacheError(r, token, id) ==
    /\ req[r].pc = "idle" /\ started < MaxRequests
    /\ TokenValid(token)
    /\ req' = [req EXCEPT ![r] =
                 [Finish([Idle EXCEPT !.op = "remove", !.token = token, !.id = id],
                         "unhandled", <<>>) EXCEPT !.fault = "hget"]]
    /\ started' = started + 1
    /\ UNCHANGED <<catalog, cache, ttl, users>>

\* A build that tests quantity >= 1 at line 110
Decrements_AtOne(item) == item.quantity >= 1

\* line 110: if item['quantity'] > 1
Decrements(item) == item.quantity > 1

\* A build that writes the line item back as it was read
Decremented_Not(item) == item

\* line 111: item['quantity'] = item.get('quantity', 1) - 1
Decremented(item) == [item EXCEPT !.quantity = item.quantity - 1]

\* A build that resets the expiry after the write-back, as add_to_cart does
RemHset_Expire(r) ==
    /\ req[r].op = "remove" /\ req[r].pc = "write"
    /\ Decrements(req[r].item_info)
    /\ LET key == CartKey(req[r])
           field == str(req[r].id)
           item == Decremented(req[r].item_info) IN
       /\ cache' = hset_cache(cache, key, field, json_dumps(item))
       /\ ttl' = expire_ttl(cache', hset_ttl(cache, ttl, key), key, CART_TTL)
       /\ req' = [q \in Reqs |->
                    IF q = r THEN Finish([req[r] EXCEPT !.item_info = item], "ok", <<>>)
                    ELSE Touched(req[q], key, field)]
    /\ UNCHANGED <<catalog, started, users>>

\* lines 111-112 and 118: decrement, write back, confirm
RemHset(r) ==
    /\ req[r].op = "remove" /\ req[r].pc = "write"
    /\ Decrements(req[r].item_info)
    /\ LET key == CartKey(req[r])
           field == str(req[r].id)
           item == Decremented(req[r].item_info) IN
       /\ cache' = hset_cache(cache, key, field, json_dumps(item))
       /\ ttl' = hset_ttl(cache, ttl, key)
       /\ req' = [q \in Reqs |->
                    IF q = r THEN Finish([req[r] EXCEPT !.item_info = item], "ok", <<>>)
                    ELSE Touched(req[q], key, field)]
    /\ UNCHANGED <<catalog, started, users>>

\* A build that deletes the cart key instead of the one field
RemHdel_DeleteCart(r) ==
    /\ req[r].op = "remove" /\ req[r].pc = "write"
    /\ ~Decrements(req[r].item_info)
    /\ LET key == CartKey(req[r])
           field == str(req[r].id) IN
       /\ cache' = [cache EXCEPT ![key] = EmptyHash]
       /\ ttl' = [ttl EXCEPT ![key] = <<>>]
       /\ req' = [q \in Reqs |->
                    IF q = r THEN Finish(req[r], "ok", <<>>)
                    ELSE Touched(req[q], key, field)]
    /\ UNCHANGED <<catalog, started, users>>

\* lines 114 and 118: delete the field, confirm
RemHdel(r) ==
    /\ req[r].op = "remove" /\ req[r].pc = "write"
    /\ ~Decrements(req[r].item_info)
    /\ LET key == CartKey(req[r])
           field == str(req[r].id) IN
       /\ cache' = hdel_cache(cache, key, field)
       /\ ttl' = hdel_ttl(cache, ttl, key, field)
       /\ req' = [q \in Reqs |->
                    IF q = r THEN Finish(req[r], "ok", <<>>)
                    ELSE Touched(req[q], key, field)]
    /\ UNCHANGED <<catalog, started, users>>

\* lines 115-116: r.hset or r.hdel raises, the handler answers 500
RemCacheError(r) ==
    /\ req[r].op = "remove" /\ req[r].pc = "write"
    /\ req' = [req EXCEPT ![r] =
                 [Finish(@, "internal500", <<>>) EXCEPT
                    !.fault = IF Decrements(req[r].item_info) THEN "hset" ELSE "hdel"]]
    /\ UNCHANGED <<catalog, cache, ttl, started, users>>

----------------------------------------------------------------------------
(* The environment *)

\* the response leaves; the slot serves the next request
Respond(r) ==
    /\ req[r].pc = "done"
    /\ req' = [req EXCEPT ![r] = Idle]
    /\ UNCHANGED <<catalog, cache, ttl, started, users>>

\* TickSeconds pass: Redis deletes every key whose expiry has elapsed
Tick ==
    /\ \E k \in Keys : ttl[k] # <<>>
    /\ LET gone == { k \in Keys : ttl[k] # <<>> /\ ttl[k][1] <= TickSeconds } IN
       /\ cache' = [k \in Keys |-> IF k \in gone THEN EmptyHash ELSE cache[k]]
       /\ ttl' = [k \in Keys |->
                    IF k \in gone \/ ttl[k] = <<>> THEN <<>>
                    ELSE <<ttl[k][1] - TickSeconds>>]
       /\ req' = [q \in Reqs |-> Expired(req[q], gone)]
    /\ UNCHANGED <<catalog, started, users>>

\* the Item table changes under the cart: a row is edited, deleted or created
CatalogUpdate(i, row) ==
    /\ row # catalog[i]
    /\ catalog' = [catalog EXCEPT ![i] = row]
    /\ UNCHANGED <<cache, ttl, req, started, users>>

----------------------------------------------------------------------------

\* the probe and the count belong to the specifications below
Frame == UNCHANGED <<probe, net>>

Next ==
    \/ \E r \in Reqs, token \in users \cup {InvalidToken}, id \in ItemIds : AddStart(r, token, id) /\ Frame
    \/ \E r \in Reqs : AddHget(r) /\ Frame
    \/ \E r \in Reqs : AddHset(r) /\ Frame
    \/ \E r \in Reqs : AddExpire(r) /\ Frame
    \/ \E r \in Reqs : AddCacheError(r) /\ Frame
    \/ \E r \in Reqs, token \in users \cup {InvalidToken} : ViewCart(r, token) /\ Frame
    \/ \E r \in Reqs, token \in users \cup {InvalidToken} : ViewCartCacheError(r, token) /\ Frame
    \/ \E r \in Reqs, token \in users \cup {InvalidToken}, id \in ItemIds : RemHget(r, token, id) /\ Frame
    \/ \E r \in Reqs, token \in users \cup {InvalidToken}, id \in ItemIds : RemHgetCacheError(r, token, id) /\ Frame
    \/ \E r \in Reqs : RemHset(r) /\ Frame
    \/ \E r \in Reqs : RemHdel(r) /\ Frame
    \/ \E r \in Reqs : RemCacheError(r) /\ Frame
    \/ \E r \in Reqs : Respond(r) /\ Frame
    \/ Tick /\ Frame
    \/ \E i \in ItemIds : \E row \in Rows(i) : CatalogUpdate(i, row) /\ Frame

Spec == Init /\ [][Next]_vars

----------------------------------------------------------------------------
(* Cart key derivation on its own: lines 48-49 for two identities *)

SubjectChars == {"a", "_", "1"}

Subjects == UNION { [1..n -> SubjectChars] : n \in 1..MaxSubLen }

UserIds == {-1, 0, 1, 11}

KeyInputs == [sub : Subjects, user_id : UserIds]

InitKey ==
    /\ probe \in [a : KeyInputs, b : KeyInputs, ka : {<<>>}, kb : {<<>>}]
    /\ net = NoNet
    /\ catalog = [i \in ItemIds |-> CHOOSE row \in Rows(i) : row.name \in {"Widget", "Gadget"}]
    /\ users = {Alice}
    /\ cache = [k \in Keys |-> EmptyHash]
    /\ ttl = [k \in Keys |-> <<>>]
    /\ req = [r \in Reqs |-> Idle]
    /\ started = 0

\* cart_key = get_cart_key(user_info['sub'], user_info['user_id']), twice
DeriveKeys ==
    /\ probe.ka = <<>>
    /\ probe' = [probe EXCEPT
                   !.ka = get_cart_key(verify_token(probe.a).sub, verify_token(probe.a).user_id),
                   !.kb = get_cart_key(verify_token(probe.b).sub, verify_token(probe.b).user_id)]
    /\ UNCHANGED <<catalog, cache, ttl, req, started, users, net>>

NextKey == DeriveKeys

SpecKey == InitKey /\ [][NextKey]_vars

----------------------------------------------------------------------------
(* What the claims speak of *)

\* the line item stored for request q's item, <<>> when there is none
Line(q) == cache[CartKey(q)][str(q.id)]

Succeeded(q, op) == q.op = op /\ q.pc = "done" /\ q.status = "ok"

\* the step in which request r's remove_item_from_cart writes and confirms
RemOkStep(r) == req[r].op = "remove" /\ req[r].pc = "write" /\ req'[r].status = "ok"

\* the step in which request r's add_to_cart resets the expiry and confirms
AddOkStep(r) == req[r].op = "add" /\ req[r].pc = "expire" /\ req'[r].status = "ok"

\* what a view_cart of the cart at key would return, for every reply order
Views(c, key) == { DecodeCart(c, key, order) : order \in hgetall(c, key) }

----------------------------------------------------------------------------
\* C1: a successful add_to_cart of an item absent from the user's cart, with
\* no other write of that line item and no expiry of the cart since its read,
\* leaves the line item {id, name and price of the catalog row it read,
\* quantity 1}; a successful add of an item that is present leaves the stored
\* line item with its quantity raised by one and its name and price as they
\* were stored, whatever the catalog row says by then.
C1_AddSnapshot ==
    \A r \in Reqs :
        Succeeded(req[r], "add") /\ req[r].clean =>
            /\ Line(req[r]) # <<>>
            /\ req[r].existing = <<>> =>
                 json_loads(Line(req[r])) =
                    [id |-> req[r].id, name |-> req[r].item.name,
                     price |-> req[r].item.price, quantity |-> 1]
            /\ req[r].existing # <<>> =>
                 /\ json_loads(Line(req[r])).quantity =
                        json_loads(req[r].existing).quantity + 1
                 /\ json_loads(Line(req[r])).name = json_loads(req[r].existing).name
                 /\ json_loads(Line(req[r])).price = json_loads(req[r].existing).price
                 /\ json_loads(Line(req[r])).id = req[r].id

\* The first add has confirmed with quantity 1, the catalog row was then
\* edited, and the second add has confirmed: quantity 2 under the first name
\* and price, which are no longer the catalog's.
C1_Witness ==
    \E r1, r2 \in Reqs :
        /\ r1 # r2
        /\ Succeeded(req[r1], "add") /\ req[r1].existing = <<>>
        /\ Succeeded(req[r2], "add") /\ req[r2].clean
        /\ req[r1].id = req[r2].id /\ req[r1].token = req[r2].token
        /\ req[r2].existing = json_dumps(NewItemInfo(<<>>, req[r1].item))
        /\ req[r2].item.name # req[r1].item.name
        /\ req[r2].item.price # req[r1].item.price
        /\ json_loads(Line(req[r2])).quantity = 2
        /\ json_loads(Line(req[r2])).name = req[r1].item.name
        /\ json_loads(Line(req[r2])).price = req[r1].item.price

----------------------------------------------------------------------------
\* C2: in every reachable state every line item stored in any cart has a
\* quantity of at least 1.
C2_QuantityAtLeastOne ==
    \A k \in Keys, f \in Fields :
        cache[k][f] # <<>> => json_loads(cache[k][f]).quantity >= 1

\* Two overlapping removes of the same line item have both read quantity 1
\* and both confirmed: the line item is gone, no quantity 0 is stored.
C2_Witness ==
    \E r1, r2 \in Reqs :
        /\ r1 # r2
        /\ Succeeded(req[r1], "remove") /\ Succeeded(req[r2], "remove")
        /\ req[r1].id = req[r2].id /\ req[r1].token = req[r2].token
        /\ json_loads(req[r1].existing).quantity = 1
        /\ json_loads(req[r2].existing).quantity = 1
        /\ Line(req[r1]) = <<>>

----------------------------------------------------------------------------
\* C3: the step in which a remove_item_from_cart that read quantity 1 confirms
\* deletes that field from the cart: no view of the cart taken after the step
\* holds a line item of that id, and every other field of the cart is as it
\* was before the step.
C3_RemoveLastDeletes ==
    [][\A r \in Reqs :
          RemOkStep(r) /\ json_loads(req[r].existing).quantity = 1 =>
              /\ cache'[CartKey(req[r])][str(req[r].id)] = <<>>
              /\ \A view \in Views(cache', CartKey(req[r])) :
                    \A j \in DOMAIN view : view[j].id # req[r].id
              /\ \A f \in Fields \ {str(req[r].id)} :
                    cache'[CartKey(req[r])][f] = cache[CartKey(req[r])][f]
              /\ \A k \in Keys \ {CartKey(req[r])} : cache'[k] = cache[k]]_vars

\* A remove that read quantity 1 has confirmed with nobody else writing the
\* line item: the item is gone from the cart and another item is still there.
C3_Witness ==
    \E r \in Reqs :
        /\ Succeeded(req[r], "remove") /\ req[r].clean
        /\ json_loads(req[r].existing).quantity = 1
        /\ Line(req[r]) = <<>>
        /\ KeyExists(cache, CartKey(req[r]))

----------------------------------------------------------------------------
\* C4: the step in which a remove_item_from_cart that read quantity N > 1
\* confirms leaves the field present, holding the line item it read with
\* quantity N-1 and the same id, name and price; when nobody else wrote the
\* line item and the cart did not expire since the read, the line item it
\* read is the one the cart held just before the step.
C4_RemoveDecrements ==
    [][\A r \in Reqs :
          RemOkStep(r) /\ json_loads(req[r].existing).quantity > 1 =>
              LET old == json_loads(req[r].existing)
                  new == cache'[CartKey(req[r])][str(req[r].id)] IN
              /\ new # <<>>
              /\ json_loads(new) =
                    [id |-> old.id, name |-> old.name, price |-> old.price,
                     quantity |-> old.quantity - 1]
              /\ old.id = req[r].id
              /\ req[r].clean => cache[CartKey(req[r])][str(req[r].id)] = req[r].existing]_vars

\* A remove that read quantity 2 has confirmed with nobody else writing the
\* line item: it is stored with quantity 1.
C4_Witness ==
    \E r \in Reqs :
        /\ Succeeded(req[r], "remove") /\ req[r].clean
        /\ json_loads(req[r].existing).quantity = 2
        /\ Line(req[r]) # <<>>
        /\ json_loads(Line(req[r])).quantity = 1

----------------------------------------------------------------------------
\* C5: when two add_to_cart calls of one user for one item have both read the
\* same stored value (quantity N, or no line item) and have both confirmed,
\* the line item, while it is stored, has quantity N+1 (or 1): one of the two
\* increments is lost.
C5_LostIncrement ==
    \A r1, r2 \in Reqs :
        /\ r1 # r2
        /\ Succeeded(req[r1], "add") /\ Succeeded(req[r2], "add")
        /\ req[r1].id = req[r2].id /\ req[r1].token = req[r2].token
        /\ req[r1].existing = req[r2].existing
        /\ Line(req[r1]) # <<>>
        => json_loads(Line(req[r1])).quantity =
              IF req[r1].existing = <<>> THEN 1
              ELSE json_loads(req[r1].existing).quantity + 1

\* Both adds read quantity 1, each wrote after the other's read, both
\* confirmed, and the stored quantity is 2, not 3.
C5_Witness ==
    \E r1, r2 \in Reqs :
        /\ r1 # r2
        /\ Succeeded(req[r1], "add") /\ Succeeded(req[r2], "add")
        /\ req[r1].id = req[r2].id /\ req[r1].token = req[r2].token
        /\ req[r1].existing = req[r2].existing
        /\ req[r1].existing # <<>>
        /\ json_loads(req[r1].existing).quantity = 1
        /\ ~req[r1].clean /\ ~req[r2].clean
        /\ Line(req[r1]) # <<>>
        /\ json_loads(Line(req[r1])).quantity = 2

----------------------------------------------------------------------------
\* the step in which request r's view_cart reads the cart and answers
ViewStep(r) ==
    /\ req[r].pc = "idle" /\ req'[r].op = "view"
    /\ TokenValid(req'[r].token) /\ req'[r].fault = "none"

StoredFields(c, key) == { f \in Fields : c[key][f] # <<>> }

\* C6: a view_cart under a valid identity whose cache read is answered never
\* ends in an error: for a cart with no entries it returns the empty
\* sequence, otherwise exactly the decoded line items stored at that moment,
\* one per item id.
C6_ViewReturnsStoredItems ==
    [][\A r \in Reqs :
          ViewStep(r) =>
              LET key == CartKey(req'[r])
                  body == req'[r].body IN
              /\ req'[r].status = "ok"
              /\ StoredFields(cache, key) = {} => body = <<>>
              /\ Len(body) = Cardinality(StoredFields(cache, key))
              /\ \A f \in StoredFields(cache, key) :
                    \E j \in DOMAIN body : body[j] = json_loads(cache[key][f])
              /\ \A i, j \in DOMAIN body : i # j => body[i].id # body[j].id]_vars

\* One view has returned a line item; a view of the same user's cart, which by
\* now has no entries, has returned the empty sequence.
C6_Witness ==
    \E r1, r2 \in Reqs :
        /\ Succeeded(req[r1], "view") /\ Len(req[r1].body) >= 1
        /\ Succeeded(req[r2], "view") /\ req[r2].body = <<>>
        /\ req[r1].token = req[r2].token
        /\ ~KeyExists(cache, CartKey(req[r2]))

----------------------------------------------------------------------------
\* C7: the step in which an add_to_cart confirms leaves the user's cart, when
\* it holds a line item, with an expiry of exactly 86400 seconds and leaves
\* every other cart's expiry alone; and line items leave a cart other than by
\* a remove only all together, in a step in which the cart's one expiry
\* elapses.
C7_AddResetsCartExpiry ==
    [][/\ \A r \in Reqs :
            AddOkStep(r) =>
                /\ KeyExists(cache', CartKey(req[r])) =>
                      ttl'[CartKey(req[r])] = <<CART_TTL>>
                /\ \A k \in Keys \ {CartKey(req[r])} : ttl'[k] = ttl[k]
       /\ \A k \in Keys :
            /\ \E f \in Fields : cache[k][f] # <<>> /\ cache'[k][f] = <<>>
            /\ ~\E r \in Reqs : RemOkStep(r) /\ CartKey(req[r]) = k
            => /\ cache'[k] = EmptyHash
               /\ ttl[k] # <<>> /\ ttl[k][1] <= TickSeconds
               /\ ttl'[k] = <<>>]_vars

\* An add of item 2 into a cart that already held item 1 has confirmed: both
\* line items are stored and the cart's expiry is the full 86400 seconds.
C7_Witness ==
    \E r \in Reqs :
        /\ Succeeded(req[r], "add") /\ req[r].clean /\ req[r].existing = <<>>
        /\ \E f \in Fields \ {str(req[r].id)} : cache[CartKey(req[r])][f] # <<>>
        /\ Line(req[r]) # <<>>
        /\ ttl[CartKey(req[r])] = <<CART_TTL>>

----------------------------------------------------------------------------
\* C8: in every reachable state in which no add_to_cart stands between its
\* write and its expiry reset on the cart, a cart that holds a line item has
\* an expiry set, of at most 86400 seconds.
C8_NonEmptyCartHasExpiry ==
    \A k \in Keys :
        /\ KeyExists(cache, k)
        /\ ~\E r \in Reqs :
              req[r].op = "add" /\ req[r].pc = "expire" /\ CartKey(req[r]) = k
        => ttl[k] # <<>> /\ ttl[k][1] <= CART_TTL

----------------------------------------------------------------------------
\* the steps of request r's remove_item_from_cart
RemStep(r) ==
    \/ req[r].pc = "idle" /\ req'[r].op = "remove"
    \/ req[r].op = "remove" /\ req[r].pc = "write" /\ req'[r].pc = "done"

----------------------------------------------------------------------------
\* C10: every add_to_cart or remove_item_from_cart in which a cache call
\* failed is answered with the handler's own 500 response.
C10_CacheFailureIsInternal ==
    \A r \in Reqs :
        /\ req[r].pc = "done" /\ req[r].op \in {"add", "remove"}
        /\ req[r].fault # "none"
        => req[r].status = "internal500"

----------------------------------------------------------------------------
\* the step in which request r's remove_item_from_cart reads the line item
RemReadStep(r) ==
    /\ req[r].pc = "idle" /\ req'[r].op = "remove"
    /\ TokenValid(req'[r].token) /\ req'[r].fault = "none"

\* C11: a remove_item_from_cart of an item id that has no line item in the
\* user's cart, its cache read answered, ends at once in the unhandled decode
\* failure of line 107, which is neither a 404 nor the handler's 500, and the
\* step changes no cart and no expiry.
C11_RemoveAbsentUnhandled ==
    [][\A r \in Reqs :
          RemReadStep(r) /\ cache[CartKey(req'[r])][str(req'[r].id)] = <<>> =>
              /\ req'[r].pc = "done"
              /\ req'[r].status = "unhandled"
              /\ req'[r].status \notin {"notfound404", "internal500", "ok"}
              /\ cache' = cache
              /\ ttl' = ttl]_vars

\* An add of the item has confirmed, the cart has since lost the line item,
\* and a remove of that id by the same user has ended in the unhandled failure
\* with no cache call having failed.
C11_Witness ==
    \E r1, r2 \in Reqs :
        /\ Succeeded(req[r1], "add") /\ ~req[r1].clean
        /\ req[r2].op = "remove" /\ req[r2].pc = "done"
        /\ req[r2].status = "unhandled" /\ req[r2].fault = "none"
        /\ req[r2].id = req[r1].id /\ req[r2].token = req[r1].token
        /\ Line(req[r2]) = <<>>

----------------------------------------------------------------------------
\* the step in which request r's add_to_cart looks its item up
AddLookupStep(r) ==
    /\ req[r].pc = "idle" /\ req'[r].op = "add" /\ TokenValid(req'[r].token)

\* C12: an add_to_cart of an item id that has no catalog row ends in the 404
\* in the very step that looks the item up: no cache call is made, before or
\* after, so every cart and every expiry is as it was, also when the cart
\* holds a line item of that id.
C12_AddUnknownItemNotFound ==
    /\ [][\A r \in Reqs :
             AddLookupStep(r) /\ QueryItem(req'[r].id) = NoRow =>
                 /\ req'[r].pc = "done"
                 /\ req'[r].status = "notfound404"
                 /\ cache' = cache
                 /\ ttl' = ttl]_vars
    /\ [](\A r \in Reqs :
             req[r].op = "add" /\ req[r].status = "notfound404" =>
                 /\ req[r].pc = "done" /\ req[r].fault = "none"
                 /\ req[r].existing = <<>> /\ req[r].item_info = NoInfo)

\* The item was added, its catalog row was then deleted, and a further add of
\* that id has ended in the 404: the line item is still stored as it was.
C12_Witness ==
    \E r \in Reqs :
        /\ req[r].op = "add" /\ req[r].pc = "done" /\ req[r].status = "notfound404"
        /\ catalog[req[r].id] = NoRow
        /\ Line(req[r]) # <<>>
        /\ json_loads(Line(req[r])).quantity = 1
        /\ ttl[CartKey(req[r])] # <<>>

----------------------------------------------------------------------------
\* C13: the cart keys derived for two distinct (subject, user_id) pairs
\* differ, and those derived for the same pair are the same, for every
\* subject over {a, _, 1} up to MaxSubLen characters (subjects that contain
\* '_' or end in digits among them) and user ids -1, 0, 1 and 11.
C13_CartKeyInjective ==
    probe.ka # <<>> =>
        /\ probe.a # probe.b => probe.ka # probe.kb
        /\ probe.a = probe.b => probe.ka = probe.kb

\* Keys have been derived for ("a_1", 1) and for ("a", 11), the pair whose
\* keys cart:a_1_1 and cart:a_11 would meet were the separator ambiguous.
C13_Witness ==
    /\ probe.ka # <<>>
    /\ probe.a = [sub |-> <<"a", "_", "1">>, user_id |-> 1]
    /\ probe.b = [sub |-> <<"a">>, user_id |-> 11]
    /\ probe.ka = <<"c", "a", "r", "t", ":", "a", "_", "1", "_", "1">>
    /\ probe.kb = <<"c", "a", "r", "t", ":", "a", "_", "1", "1">>

----------------------------------------------------------------------------
\* the step in which request r writes its line item back (hset) or deletes it
WriteStep(r, key, field) ==
    /\ req[r].pc \in {"hset", "write"} /\ req'[r].pc # req[r].pc
    /\ req'[r].fault = "none"
    /\ CartKey(req[r]) = key /\ str(req[r].id) = field

SameSnapshot(x, y) ==
    json_loads(x).name = json_loads(y).name /\ json_loads(x).price = json_loads(y).price

\* C14 as stated: in no step does a line item that is stored before and after
\* the step change its name or price.
C14_SnapshotNeverChanges ==
    [][\A k \in Keys, f \in Fields :
          cache[k][f] # <<>> /\ cache'[k][f] # <<>> =>
              SameSnapshot(cache[k][f], cache'[k][f])]_vars

\* C14 as amended: a line item that is stored before and after a step changes
\* its name or price only in the write-back of a request whose read of it was
\* overtaken (another request wrote the line item, or the cart expired, after
\* that read); and an add whose read was not overtaken and that creates the
\* line item stores the name and price of the catalog row it read.
C14_SnapshotStableUnlessOvertaken ==
    [][/\ \A k \in Keys, f \in Fields :
            /\ cache[k][f] # <<>> /\ cache'[k][f] # <<>>
            /\ ~SameSnapshot(cache[k][f], cache'[k][f])
            => \E r \in Reqs : WriteStep(r, k, f) /\ ~req[r].clean
       /\ \A r \in Reqs, k \in Keys, f \in Fields :
            /\ WriteStep(r, k, f) /\ req[r].op = "add" /\ req[r].clean
            /\ cache[k][f] = <<>>
            => /\ cache'[k][f] # <<>>
               /\ json_loads(cache'[k][f]).name = req[r].item.name
               /\ json_loads(cache'[k][f]).price = req[r].item.price
               /\ json_loads(cache'[k][f]).quantity = 1]_vars

\* The item was added twice, its catalog row was then edited, and a remove
\* whose read was not overtaken has confirmed: the line item is stored with
\* quantity 1 under the name and price of the first add, not the catalog's.
C14_Witness ==
    \E r \in Reqs :
        /\ Succeeded(req[r], "remove") /\ req[r].clean
        /\ json_loads(req[r].existing).quantity = 2
        /\ Line(req[r]) # <<>>
        /\ catalog[req[r].id] # NoRow
        /\ json_loads(Line(req[r])).name # catalog[req[r].id].name
        /\ json_loads(Line(req[r])).price # catalog[req[r].id].price
        /\ SameSnapshot(Line(req[r]), req[r].existing)

----------------------------------------------------------------------------
(* The store listing on its own: lines 16-32 against every catalog *)

\* a listing that leaves the currency sign off the price
StoreRecord_NoCurrency(item) ==
    [name |-> item.name, price |-> str(item.price), in_stock |-> item.in_stock]

\* line 32: {'name': item.name, 'price': f'${item.price}', 'in_stock': item.in_stock}
StoreRecord(item) ==
    [name |-> item.name, price |-> <<"$">> \o str(item.price), in_stock |-> item.in_stock]

\* db.query(Item).all(): the ids of the rows of the table, in no promised order
QueryAll == Orderings({ i \in ItemIds : catalog[i] # NoRow })

\* the rows the table can hold for an id when any of them may be missing
StoreRows(i) == Rows(i) \cup {NoRow}

\* a cart of one line item, as an add leaves it
OneLineCart ==
    [f \in Fields |->
       IF f = str(2) THEN json_dumps(NewItemInfo(<<>>, Row(2, "Gadget", 5, TRUE)))
       ELSE <<>>]

InitStore ==
    /\ probe = NoProbe
    /\ net = NoNet
    /\ users = {Alice}
    /\ catalog \in { c \in [ItemIds -> UNION { StoreRows(i) : i \in ItemIds }] :
                       \A i \in ItemIds : c[i] \in StoreRows(i) }
    /\ \E stored \in BOOLEAN :
          /\ cache = [k \in Keys |->
                        IF stored /\ k = CartKey([token |-> Alice])
                        THEN OneLineCart ELSE EmptyHash]
          /\ ttl = [k \in Keys |->
                      IF stored /\ k = CartKey([token |-> Alice])
                      THEN <<CART_TTL>> ELSE <<>>]
    /\ req = [r \in Reqs |-> Idle]
    /\ started = 0

\* lines 27-32: no token is asked for; 404 on an empty table, else the records
ViewStore(r) ==
    /\ req[r].pc = "idle" /\ started < MaxRequests
    /\ \E inventory \in QueryAll :
          LET q == [Idle EXCEPT !.op = "store"] IN
          req' = [req EXCEPT ![r] =
                    IF inventory = <<>> THEN Finish(q, "notfound404", <<>>)
                    ELSE Finish(q, "ok",
                                [n \in DOMAIN inventory |-> StoreRecord(catalog[inventory[n]])])]
    /\ started' = started + 1
    /\ UNCHANGED <<catalog, cache, ttl, users>>

\* the Item table changes between listings: any row is edited, deleted or created
StoreUpdate(i, row) ==
    /\ row # catalog[i]
    /\ catalog' = [catalog EXCEPT ![i] = row]
    /\ UNCHANGED <<cache, ttl, req, started, users>>

NextStore ==
    \/ \E r \in Reqs : ViewStore(r) /\ Frame
    \/ \E r \in Reqs : Respond(r) /\ Frame
    \/ \E i \in ItemIds : \E row \in StoreRows(i) : StoreUpdate(i, row) /\ Frame

SpecStore == InitStore /\ [][NextStore]_vars

\* the step in which request r's view_store runs
StoreStep(r) == req[r].pc = "idle" /\ req'[r].op = "store"

\* C15: a view_store step answers 404 with no records when the table has no
\* row; otherwise it answers with as many records as the table has rows, one
\* for each row, holding the row's name, its in_stock value and its price as
\* "$" followed by the price's text; and it leaves the table, every cart and
\* every expiry as they were.
C15_ViewStoreListsCatalog ==
    [][\A r \in Reqs : StoreStep(r) =>
          LET rows == { i \in ItemIds : catalog[i] # NoRow }
              body == req'[r].body
          IN /\ catalog' = catalog /\ cache' = cache /\ ttl' = ttl
             /\ rows = {} => req'[r].status = "notfound404" /\ body = <<>>
             /\ rows # {} =>
                  /\ req'[r].status = "ok"
                  /\ Len(body) = Cardinality(rows)
                  /\ \A i \in rows :
                        Cardinality({ n \in DOMAIN body :
                            /\ body[n].name = catalog[i].name
                            /\ body[n].in_stock = catalog[i].in_stock
                            /\ body[n].price = <<"$">> \o str(catalog[i].price) }) = 1]_vars

\* One listing of an empty table was answered 404 and, after rows were created,
\* another listing returned two records, Gizmo at "$12" out of stock among them,
\* with a cart stored all along.
C15_Witness ==
    /\ \E r \in Reqs : req[r].op = "store" /\ req[r].pc = "done"
                       /\ req[r].status = "notfound404"
    /\ \E r \in Reqs :
          /\ Succeeded(req[r], "store") /\ Len(req[r].body) = 2
          /\ \E n \in 1..2 : req[r].body[n] =
                [name |-> "Gizmo", price |-> <<"$", "1", "2">>, in_stock |-> FALSE]
    /\ \E k \in Keys : KeyExists(cache, k) /\ ttl[k] = <<CART_TTL>>

----------------------------------------------------------------------------
(* Runs in which the requests on one item follow one another, no cache call
   fails, no cart expires and no catalog row is deleted *)

\* a request on item id is between its first cache call and its answer
InFlight(id) ==
    \E q \in Reqs : /\ req[q].op \in {"add", "remove"} /\ req[q].id = id
                    /\ req[q].pc \notin {"idle", "done"}

\* the count of confirmed adds minus confirmed removes, kept per item
Count ==
    /\ net' = [f \in Fields |->
                 net[f]
                 + (IF \E r \in Reqs : AddOkStep(r) /\ str(req[r].id) = f THEN 1 ELSE 0)
                 - (IF \E r \in Reqs : RemOkStep(r) /\ str(req[r].id) = f THEN 1 ELSE 0)]
    /\ UNCHANGED probe

\* no key's expiry elapses in the next Tick
NoneExpires == \A k \in Keys : ttl[k] # <<>> => ttl[k][1] > TickSeconds

NextSeq ==
    \/ \E r \in Reqs, token \in users \cup {InvalidToken}, id \in ItemIds :
          ~InFlight(id) /\ AddStart(r, token, id) /\ Count
    \/ \E r \in Reqs : AddHget(r) /\ Count
    \/ \E r \in Reqs : AddHset(r) /\ Count
    \/ \E r \in Reqs : AddExpire(r) /\ Count
    \/ \E r \in Reqs, token \in users \cup {InvalidToken} : ViewCart(r, token) /\ Count
    \/ \E r \in Reqs, token \in users \cup {InvalidToken}, id \in ItemIds :
          ~InFlight(id) /\ RemHget(r, token, id) /\ Count
    \/ \E r \in Reqs : RemHset(r) /\ Count
    \/ \E r \in Reqs : RemHdel(r) /\ Count
    \/ \E r \in Reqs : Respond(r) /\ Count
    \/ NoneExpires /\ Tick /\ Count
    \/ \E i \in ItemIds : \E row \in Rows(i) :
          catalog[i] # NoRow /\ row # NoRow /\ CatalogUpdate(i, row) /\ Count

SpecSeq == Init /\ [][NextSeq]_vars

\* C16: in such a run, whenever no request on an item is in flight, the item's
\* line in the user's cart is absent when confirmed adds minus confirmed
\* removes is 0, and otherwise holds exactly that number as its quantity.
C16_LineItemStateMachine ==
    \A id \in ItemIds :
        ~InFlight(id) =>
            LET line == cache[CartKey([token |-> Alice])][str(id)] IN
            /\ net[str(id)] = 0 <=> line = <<>>
            /\ line # <<>> => json_loads(line).quantity = net[str(id)]

\* Two adds and one remove of item 1 were confirmed one after another, the last
\* of them a remove that read quantity 2: the count is 1 and so is the quantity.
C16_Witness ==
    /\ ~InFlight(1)
    /\ \E r \in Reqs :
          /\ Succeeded(req[r], "remove") /\ req[r].id = 1
          /\ json_loads(req[r].existing).quantity = 2
    /\ net[str(1)] = 1
    /\ json_loads(cache[CartKey([token |-> Alice])][str(1)]).quantity = 1

\* The item was added and removed once each: the count is 0 and the line is gone.
C16_WitnessAbsent ==
    \E r \in Reqs :
        /\ Succeeded(req[r], "remove") /\ json_loads(req[r].existing).quantity = 1
        /\ net[str(req[r].id)] = 0 /\ Line(req[r]) = <<>>

----------------------------------------------------------------------------
\* the step in which request r's add_to_cart ends with the given status
AddEndStep(r, status) ==
    req[r].op = "add" /\ req[r].pc # "done" /\ req'[r].pc = "done" /\ req'[r].status = status

\* C17: the step in which an add answers 500 changes no line item and no
\* expiry (nothing is undone). An add that answered 500, and whose line item
\* nobody else has written since it read it, leaves the line item as it read
\* it when the write raised, and leaves the written line item (a new entry of
\* quantity 1, or the entry it read with quantity one higher) when the expiry
\* reset raised. The add's write leaves every expiry as it was. Every stored
\* line item decodes to what was encoded. An add answers success only in the
\* step of its expiry reset, after its write, and that step sets the expiry
\* of the cart to CART_TTL.
C17_AddNoRollback ==
    /\ [][\A r \in Reqs :
            /\ AddEndStep(r, "internal500") =>
                 /\ cache' = cache /\ ttl' = ttl
                 /\ req[r].pc \in {"hget", "hset", "expire"}
            /\ req[r].op = "add" /\ req[r].pc = "hset" /\ req'[r].pc = "expire" =>
                 /\ cache'[CartKey(req[r])][str(req[r].id)] = json_dumps(req[r].item_info)
                 /\ \A k \in Keys, f \in Fields :
                       k # CartKey(req[r]) \/ f # str(req[r].id) => cache'[k][f] = cache[k][f]
                 /\ ttl' = ttl
            /\ AddEndStep(r, "ok") =>
                 /\ req[r].pc = "expire"
                 /\ cache' = cache
                 /\ KeyExists(cache, CartKey(req[r])) => ttl'[CartKey(req[r])] = <<CART_TTL>>]_vars
    /\ [](\A r \in Reqs :
            /\ req[r].op = "add" /\ req[r].pc = "done" /\ req[r].status = "internal500"
               /\ req[r].clean =>
                 /\ req[r].fault = "hset" => Line(req[r]) = req[r].existing
                 /\ req[r].fault = "expire" =>
                      /\ Line(req[r]) # <<>>
                      /\ json_loads(Line(req[r])).quantity =
                            IF req[r].existing = <<>> THEN 1
                            ELSE json_loads(req[r].existing).quantity + 1
                      /\ req[r].existing # <<>> =>
                            SameSnapshot(Line(req[r]), req[r].existing)
            /\ req[r].op = "add" /\ req[r].pc = "expire" /\ req[r].clean =>
                 Line(req[r]) = json_dumps(req[r].item_info))
    /\ [](\A k \in Keys, f \in Fields :
            cache[k][f] # <<>> =>
                /\ json_dumps(json_loads(cache[k][f])) = cache[k][f]
                /\ json_loads(cache[k][f]).id \in ItemIds
                /\ json_loads(cache[k][f]).quantity \in Nat)

\* An add of an item already in the cart wrote quantity 2 and then answered 500
\* because the expiry reset raised: the incremented line item is stored and
\* the cart's expiry is still the one that has been running down.
C17_Witness ==
    \E r \in Reqs :
        /\ req[r].op = "add" /\ req[r].pc = "done" /\ req[r].status = "internal500"
        /\ req[r].fault = "expire" /\ req[r].clean
        /\ req[r].existing # <<>>
        /\ json_loads(Line(req[r])).quantity = 2
        /\ ttl[CartKey(req[r])] # <<>>
        /\ ttl[CartKey(req[r])][1] < CART_TTL

----------------------------------------------------------------------------
\* add a and remove d were both confirmed for the same line item
BothConfirmed(a, d) ==
    /\ Succeeded(req[a], "add") /\ Succeeded(req[d], "remove")
    /\ CartKey(req[a]) = CartKey(req[d]) /\ req[a].id = req[d].id

ReadQuantity(q, n) == q.existing # <<>> /\ json_loads(q.existing).quantity = n

\* C18: when an add and a remove of one user's line item are both confirmed
\* and both had read quantity 1, the line item is absent or has quantity 2,
\* never quantity 1: the add's write of such a pair stores quantity 2 and the
\* remove's delete leaves the item absent, whichever comes last. When the two
\* ran one after the other from quantity 1 and nothing touched the line item
\* after the later one read it, the line item has quantity 1.
C18_AddRemoveRace ==
    /\ [](\A a, d \in Reqs : BothConfirmed(a, d) =>
            /\ ReadQuantity(req[a], 1) /\ ReadQuantity(req[d], 1) =>
                 Line(req[a]) = <<>> \/ json_loads(Line(req[a])).quantity = 2
            /\ ReadQuantity(req[a], 1) /\ ReadQuantity(req[d], 2) /\ req[d].clean =>
                 Line(req[a]) # <<>> /\ json_loads(Line(req[a])).quantity = 1
            /\ req[a].existing = <<>> /\ ReadQuantity(req[d], 1) /\ req[a].clean =>
                 Line(req[a]) # <<>> /\ json_loads(Line(req[a])).quantity = 1)
    /\ [][\A a, d \in Reqs :
            /\ req[a].op = "add" /\ req[d].op = "remove"
            /\ CartKey(req[a]) = CartKey(req[d]) /\ req[a].id = req[d].id
            /\ ReadQuantity(req[a], 1) /\ ReadQuantity(req[d], 1)
            /\ HasRead(req[a]) /\ HasRead(req[d])
            => /\ req[a].pc = "hset" /\ req'[a].pc = "expire" =>
                    json_loads(cache'[CartKey(req[a])][str(req[a].id)]).quantity = 2
               /\ RemOkStep(d) => cache'[CartKey(req[d])][str(req[d].id)] = <<>>]_vars

\* Both were confirmed after both read quantity 1, and the add wrote last: the
\* cart holds quantity 2 although one add and one remove were confirmed.
C18_Witness ==
    \E a, d \in Reqs :
        /\ BothConfirmed(a, d)
        /\ ReadQuantity(req[a], 1) /\ ReadQuantity(req[d], 1)
        /\ Line(req[a]) # <<>> /\ json_loads(Line(req[a])).quantity = 2

\* The same pair with the item gone: the delete came last, or the cart expired.
C18_WitnessAbsent ==
    \E a, d \in Reqs :
        /\ BothConfirmed(a, d)
        /\ ReadQuantity(req[a], 1) /\ ReadQuantity(req[d], 1)
        /\ Line(req[a]) = <<>>

----------------------------------------------------------------------------
(* Two identities with one user id, using the store side by side *)

InitTwo ==
    /\ probe = NoProbe
    /\ net = NoNet
    /\ catalog = [i \in ItemIds |-> CHOOSE row \in Rows(i) : row.name \in {"Widget", "Gadget"}]
    /\ users = Identities
    /\ cache = [k \in Keys |-> EmptyHash]
    /\ ttl = [k \in Keys |-> <<>>]
    /\ req = [r \in Reqs |-> Idle]
    /\ started = 0

NextTwo ==
    \/ \E r \in Reqs, token \in users \cup {InvalidToken}, id \in ItemIds : AddStart(r, token, id) /\ Frame
    \/ \E r \in Reqs : AddHget(r) /\ Frame
    \/ \E r \in Reqs : AddHset(r) /\ Frame
    \/ \E r \in Reqs : AddExpire(r) /\ Frame
    \/ \E r \in Reqs : AddCacheError(r) /\ Frame
    \/ \E r \in Reqs, token \in users \cup {InvalidToken} : ViewCart(r, token) /\ Frame
    \/ \E r \in Reqs, token \in users \cup {InvalidToken}, id \in ItemIds : RemHget(r, token, id) /\ Frame
    \/ \E r \in Reqs : RemHset(r) /\ Frame
    \/ \E r \in Reqs : RemHdel(r) /\ Frame
    \/ \E r \in Reqs : RemCacheError(r) /\ Frame
    \/ \E r \in Reqs : Respond(r) /\ Frame
    \/ Tick /\ Frame

SpecTwo == InitTwo /\ [][NextTwo]_vars

\* the cart key of an identity
KeyOf(u) == get_cart_key(u.sub, u.user_id)

\* request r takes a step of its handler; caller is the identity it runs under
Acts(r) == req'[r].pc # req[r].pc /\ req'[r].op # "none"

Caller(r) == verify_token(req'[r].token)

\* C19: a step of an add, remove or view under one identity leaves the line
\* items and the expiry of every other identity's cart as they were, and what
\* it reads (the line item of an add or remove, the body of a view) is in the
\* cart of its own identity.
C19_CartIsolation ==
    [][\A r \in Reqs : Acts(r) =>
          /\ \A u \in Identities :
                u # Caller(r) =>
                    /\ cache'[KeyOf(u)] = cache[KeyOf(u)]
                    /\ ttl'[KeyOf(u)] = ttl[KeyOf(u)]
          /\ req'[r].op \in {"add", "remove"} /\ req'[r].existing # req[r].existing =>
                req'[r].existing = cache[KeyOf(Caller(r))][str(req'[r].id)]
          /\ req'[r].op = "view" /\ req'[r].status = "ok" =>
                req'[r].body \in Views(cache, KeyOf(Caller(r)))]_vars

\* Subject a and subject a_1, both of user id 1, each hold a cart: a's has item
\* 1 twice, with an add confirmed after the other cart was filled; a_1's has
\* item 2 once and an expiry that has been running down meanwhile.
C19_Witness ==
    LET a == [sub |-> <<"a">>, user_id |-> 1]
        b == [sub |-> <<"a", "_", "1">>, user_id |-> 1]
    IN /\ cache[KeyOf(a)][str(1)] # <<>>
       /\ json_loads(cache[KeyOf(a)][str(1)]).quantity = 2
       /\ cache[KeyOf(a)][str(2)] = <<>>
       /\ cache[KeyOf(b)][str(2)] # <<>>
       /\ cache[KeyOf(b)][str(1)] = <<>>
       /\ ttl[KeyOf(a)] = <<CART_TTL>>
       /\ ttl[KeyOf(b)] # <<>> /\ ttl[KeyOf(b)][1] < CART_TTL
       /\ \E r \in Reqs : Succeeded(req[r], "add") /\ verify_token(req[r].token) = a

----------------------------------------------------------------------------
\* the step in which request r's view_cart runs, whatever its answer
ViewCartStep(r) == req[r].pc = "idle" /\ req'[r].op = "view"

\* C20: a view_cart step leaves every line item and every expiry as they were;
\* and the only step that gives a cart an expiry, or a later one than it has,
\* is the expiry reset of an add of that cart, which sets it to CART_TTL.
C20_ViewCartReadOnly ==
    [][/\ \A r \in Reqs : ViewCartStep(r) => cache' = cache /\ ttl' = ttl
       /\ \A k \in Keys :
            /\ ttl'[k] # <<>>
            /\ ttl[k] = <<>> \/ ttl'[k][1] > ttl[k][1]
            => /\ ttl'[k] = <<CART_TTL>>
               /\ \E r \in Reqs : AddOkStep(r) /\ CartKey(req[r]) = k]_vars

\* One add and one view were made, the view returned the line item, and the
\* cart is gone: it expired with the view as the only request after the add.
C20_Witness ==
    /\ started = 2
    /\ \E r \in Reqs :
          /\ Succeeded(req[r], "view") /\ req[r].body # <<>>
          /\ ~KeyExists(cache, CartKey(req[r]))
          /\ \A q \in Reqs \ {r} : req[q].op \in {"none", "add"}

====
